---- MODULE Spec2Model ----
(***************************************************************************)
(* The function operator of the kube controller                            *)
(* (pkg/platform/kube/controller/nucliofunction.go): the CreateOrUpdate    *)
(* handler, the status writer it uses, and the multi-worker operator that  *)
(* feeds it keys from a deduplicating work queue.                          *)
(***************************************************************************)
EXTENDS Integers, Sequences, FiniteSets, TLC

(***************************************************************************)
(* Bounds of the model.                                                    *)
(***************************************************************************)
\* handler invocations in one behaviour
MaxInvocations == 2

(***************************************************************************)
(* Program constants.                                                      *)
(***************************************************************************)
NumWorkers == 2
\* errors.GetErrorStackString(err, 10)
ErrorStackDepth == 10
\* abstract.DefaultReadinessTimeoutSeconds
DefaultReadinessTimeoutSeconds == 120
\* validation.IsQualifiedName: longest name part
qualifiedNameMaxLength == 63

FunctionStateWaitingForResourceConfiguration == "waitingForResourceConfiguration"
FunctionStateWaitingForScaleResourcesFromZero == "waitingForScaleResourcesFromZero"
FunctionStateWaitingForScaleResourcesToZero == "waitingForScaleResourcesToZero"
FunctionStateReady == "ready"
FunctionStateScaledToZero == "scaledToZero"
FunctionStateImported == "imported"
FunctionStateError == "error"
FunctionStateUnhealthy == "unhealthy"
FunctionStateBuilding == "building"

FunctionStates ==
    { FunctionStateWaitingForResourceConfiguration,
      FunctionStateWaitingForScaleResourcesFromZero,
      FunctionStateWaitingForScaleResourcesToZero,
      FunctionStateReady,
      FunctionStateScaledToZero,
      FunctionStateImported,
      FunctionStateError,
      FunctionStateUnhealthy,
      FunctionStateBuilding }

ScaleToZeroCompletedScaleEvent == "scaleToZeroCompleted"
ScaleFromZeroCompletedScaleEvent == "scaleFromZeroCompleted"
ResourceUpdatedScaleEvent == "resourceUpdated"

ContainerHTTPPortName == "http"

(***************************************************************************)
(* Errors.  An error is the sequence of its frames, outermost first; nil   *)
(* is the empty sequence.  A frame is the sequence of the pieces of its    *)
(* message.                                                                *)
(***************************************************************************)
NilError == <<>>

New(message) == <<message>>

Wrap(err, message) == <<message>> \o err

Min(a, b) == IF a < b THEN a ELSE b

\* the first `depth` frames of the error's stack
GetErrorStackString(err, depth) == SubSeq(err, 1, Min(Len(err), depth))

RECURSIVE Join(_, _)
Join(elems, sep) ==
    IF Len(elems) = 0 THEN <<>>
    ELSE IF Len(elems) = 1 THEN <<elems[1]>>
    ELSE <<elems[1], sep>> \o Join(Tail(elems), sep)

(***************************************************************************)
(* Function names and their validation.  A name is a sequence of           *)
(* characters.                                                             *)
(***************************************************************************)
Alphanumeric == {"f", "n", "F", "a", "1"}
InteriorOnly == {"-", "_", "."}

Repeat(c, n) == [i \in 1..n |-> c]

NameFn1 == <<"f", "n", "1">>
NameDashed == <<"f", "-", "1">>
NameS4 == <<"F", "n", "_", "1", "!">>
NameLeadingDash == <<"-", "f", "n">>
NameTooLong == Repeat("a", qualifiedNameMaxLength + 1)

\* ([A-Za-z0-9][-A-Za-z0-9_.]*)?[A-Za-z0-9]
qualifiedNameRegexpMatch(name) ==
    /\ Len(name) > 0
    /\ name[1] \in Alphanumeric
    /\ name[Len(name)] \in Alphanumeric
    /\ \A i \in 1..Len(name) : name[i] \in Alphanumeric \cup InteriorOnly

\* the error messages of validation.IsQualifiedName, none for a valid name
IsQualifiedName(name) ==
    (IF Len(name) = 0 THEN <<"name part must be non-empty">>
     ELSE IF Len(name) > qualifiedNameMaxLength
          THEN <<"name part must be no more than 63 characters">>
          ELSE <<>>)
    \o
    (IF ~qualifiedNameRegexpMatch(name)
     THEN <<"name part must consist of alphanumeric characters, '-', '_' or '.'">>
     ELSE <<>>)

(***************************************************************************)
(* Objects.  A status is functionconfig.Status; ScaleToZero is a pointer,  *)
(* modelled as a sequence that is empty (nil) or holds the record.         *)
(***************************************************************************)
NoScaleToZero == <<>>

Status(state, message, httpPort, scaleToZero) ==
    [ State |-> state,
      Message |-> message,
      Logs |-> <<>>,
      HTTPPort |-> httpPort,
      ScaleToZero |-> scaleToZero ]

\* &functionconfig.Status{State: state}
StatusOfState(state) == Status(state, <<>>, 0, NoScaleToZero)

\* &functionconfig.Status{State: state, Message: message}
StatusOfError(state, message) == Status(state, message, 0, NoScaleToZero)

BuildLogs == <<"build log">>

\* the status a freshly built function is created with
InitialStatus ==
    [ StatusOfState(FunctionStateWaitingForResourceConfiguration)
        EXCEPT !.Logs = BuildLogs ]

NoAnnotations == {}
SkipDeployTrue == {<<"skip-deploy", "true">>}
SkipDeployFalse == {<<"skip-deploy", "false">>}
Truthy == {"1", "t", "T", "TRUE", "true", "True"}

\* functionconfig.ShouldSkipDeploy
ShouldSkipDeploy(annotations) ==
    \E a \in annotations : a[1] = "skip-deploy" /\ a[2] \in Truthy

KindFunction == "NuclioFunction"
KindOther == "NuclioProject"
KindNil == "nil"
KindAbsent == "absent"

NuclioFunction(name, annotations, readinessTimeoutSeconds, status) ==
    [ Kind |-> KindFunction,
      Name |-> name,
      Annotations |-> annotations,
      ReadinessTimeoutSeconds |-> readinessTimeoutSeconds,
      Status |-> status ]

\* a runtime.Object that is not a *NuclioFunction
OtherObject ==
    [ NuclioFunction(NameFn1, NoAnnotations, 0, StatusOfState(FunctionStateReady))
        EXCEPT !.Kind = KindOther ]

\* the nil *NuclioFunction
NilFunction ==
    [ NuclioFunction(<<>>, NoAnnotations, 0, StatusOfState(""))
        EXCEPT !.Kind = KindNil ]

\* no object: the key is not in the store, or not in the cache
Absent == [NilFunction EXCEPT !.Kind = KindAbsent]

\* function, objectIsFunction := object.(*nuclioio.NuclioFunction)
AsFunction(object) == IF object.Kind = KindFunction THEN object ELSE NilFunction

(***************************************************************************)
(* What the resource client and the object store do in one invocation:     *)
(* the inputs of the handler that the environment chooses.                 *)
(***************************************************************************)
Succeeds == "ok"
Fails == "err"
Panics == "panic"

ProvisionError == New(<<"deployment is invalid">>)
\* a provisioning error that already carries a full stack
DeepProvisionError == [i \in 1..ErrorStackDepth |-> <<"caused by">>]
ReadinessError == New(<<"pod crashed">>)
DeadlineExceeded == New(<<"context deadline exceeded">>)
ServiceError == New(<<"service not found">>)
UpdateError == New(<<"the object has been modified">>)
DeleteError == New(<<"failed to delete deployment">>)
PanicError == New(<<"panic: boom">>)

Port(name, nodePort) == [Name |-> name, NodePort |-> nodePort]

\* what Resources.Service() returns: the service's ports when it returns a
\* service; NoService is the nil service
NoService == <<"nil">>
ServiceOf(ports) == <<"service", ports>>
Services ==
    { NoService,
      ServiceOf(<<Port("metrics", 30090)>>),
      ServiceOf(<<Port("metrics", 30090), Port(ContainerHTTPPortName, 30080)>>),
      ServiceOf(<<Port(ContainerHTTPPortName, 0)>>) }

\* seconds the resources take to become available
ReadyAfter == {0, 2, DefaultReadinessTimeoutSeconds + 1}

DefaultService == NoService

\* the choices that no call of the invocation reads are held at a default;
\* now is the reading of the wall clock, set when the handler is called
Environments ==
    { e \in [ createOrUpdate : {Succeeds, Fails, Panics},
              createOrUpdateError : {ProvisionError, DeepProvisionError},
              waitAvailable : {Succeeds, Fails, Panics},
              readyAfter : ReadyAfter,
              service : {Succeeds, Fails, Panics},
              serviceValue : Services,
              update : {Succeeds, Fails},
              now : {0} ] :
        /\ e.createOrUpdate # Fails => e.createOrUpdateError = ProvisionError
        /\ e.createOrUpdate # Succeeds => e.waitAvailable = Succeeds
        /\ e.waitAvailable # Succeeds => e.readyAfter = 0
        /\ (e.createOrUpdate # Succeeds \/ e.waitAvailable # Succeeds)
               => e.service = Succeeds
        /\ e.service # Succeeds => e.serviceValue = DefaultService }

(***************************************************************************)
(* The handler.  Every operator returns what one call did: how it ended    *)
(* (Returned or Panicked), the error it returned, the function object as   *)
(* it is in memory afterwards, the calls made to the resource client and   *)
(* the object store in order with how each ended, the statuses handed to   *)
(* ObjectStore.Update with the error each Update returned, and the scale   *)
(* events stamped.                                                         *)
(***************************************************************************)
Returned == "returned"
Panicked == "panicked"

CallCreateOrUpdate == "ResourceClient.CreateOrUpdate"
CallWaitAvailable == "ResourceClient.WaitAvailable"
CallService == "Resources.Service"
CallUpdate == "ObjectStore.Update"
CallDelete == "ResourceClient.Delete"

Call(name, outcome) == [name |-> name, outcome |-> outcome]

\* a call of ResourceClient.Delete, with its arguments
DeleteCall(namespace, name, outcome) ==
    [name |-> CallDelete, outcome |-> outcome, args |-> <<namespace, name>>]

\* the resources that ResourceClient.CreateOrUpdate returned: none, or how
\* their Service() ends and the service it returns
NoResources == <<>>
ResourcesOf(env) == <<[service |-> env.service, serviceValue |-> env.serviceValue]>>

Result(outcome, err, function, calls, updates, scaleEvents) ==
    [ outcome |-> outcome,
      err |-> err,
      function |-> function,
      calls |-> calls,
      updates |-> updates,
      scaleEvents |-> scaleEvents,
      resources |-> NoResources,
      recovered |-> FALSE ]

\* r, after the calls `calls` that were made before it
After(calls, r) == [r EXCEPT !.calls = calls \o r.calls]

\* a status writer that drops the error of the object store
setFunctionStatusDropsError(function, status, env) ==
    LET updated == [function EXCEPT !.Status = status]
        err == IF env.update = Succeeds THEN NilError ELSE UpdateError
    IN  Result(Returned, NilError, updated, <<Call(CallUpdate, env.update)>>,
               <<[status |-> status, err |-> err]>>, <<>>)

setFunctionStatus(function, status, env) ==
    LET updated == [function EXCEPT !.Status = status]
        err == IF env.update = Succeeds THEN NilError ELSE UpdateError
    IN  Result(Returned, err, updated, <<Call(CallUpdate, env.update)>>,
               <<[status |-> status, err |-> err]>>, <<>>)

\* an error setter that returns the error of the status write when the
\* write fails
setFunctionErrorReturnsWriteError(function, functionErrorState, err, env) ==
    IF function.Kind = KindNil
    THEN Result(Panicked, NilError, function, <<>>, <<>>, <<>>)
    ELSE LET set == setFunctionStatus(function,
                        StatusOfError(functionErrorState,
                                      GetErrorStackString(err, ErrorStackDepth)),
                        env)
         IN  IF set.err # NilError THEN set ELSE [set EXCEPT !.err = err]

setFunctionError(function, functionErrorState, err, env) ==
    IF function.Kind = KindNil
    THEN \* function.Name on the nil function
         Result(Panicked, NilError, function, <<>>, <<>>, <<>>)
    ELSE LET set == setFunctionStatus(function,
                        StatusOfError(functionErrorState,
                                      GetErrorStackString(err, ErrorStackDepth)),
                        env)
         IN  [set EXCEPT !.err = err]

\* a stamping that leaves the status as it is
setFunctionScaleToZeroStatusNoop(functionStatus, scaleToZeroEvent, now) ==
    functionStatus

\* the status with its scale to zero status set; the function returns nil
setFunctionScaleToZeroStatus(functionStatus, scaleToZeroEvent, now) ==
    [ functionStatus EXCEPT
        !.ScaleToZero = << [ LastScaleEvent |-> scaleToZeroEvent,
                             LastScaleEventTime |-> now ] >> ]

\* a scan that takes the node port of the first port, whatever its name
ScanPortsAnyName(ports) ==
    IF Len(ports) = 0 THEN 0 ELSE Head(ports).NodePort

RECURSIVE ScanPorts(_)
ScanPorts(ports) ==
    IF Len(ports) = 0 THEN 0
    ELSE IF Head(ports).Name = ContainerHTTPPortName THEN Head(ports).NodePort
    ELSE ScanPorts(Tail(ports))

\* [outcome, httpPort, err]
getFunctionHTTPPort(env) ==
    IF env.service = Panics
    THEN [outcome |-> Panicked, httpPort |-> 0, err |-> NilError]
    ELSE IF env.service = Fails
    THEN [ outcome |-> Returned, httpPort |-> 0,
           err |-> Wrap(ServiceError, <<"Failed to get function service">>) ]
    ELSE [ outcome |-> Returned,
           httpPort |-> IF env.serviceValue # NoService
                           /\ Len(env.serviceValue[2]) # 0
                        THEN ScanPorts(env.serviceValue[2])
                        ELSE 0,
           err |-> NilError ]

FunctionStateInSlice(state, states) == \E i \in 1..Len(states) : states[i] = state

\* the states to respond to, with error among them
statesToRespondWithError ==
    << FunctionStateWaitingForResourceConfiguration,
       FunctionStateWaitingForScaleResourcesFromZero,
       FunctionStateWaitingForScaleResourcesToZero,
       FunctionStateReady,
       FunctionStateScaledToZero,
       FunctionStateError >>

\* the states to respond to, with unhealthy among them
statesToRespondWithUnhealthy ==
    << FunctionStateWaitingForResourceConfiguration,
       FunctionStateWaitingForScaleResourcesFromZero,
       FunctionStateWaitingForScaleResourcesToZero,
       FunctionStateReady,
       FunctionStateScaledToZero,
       FunctionStateUnhealthy >>

statesToRespond ==
    << FunctionStateWaitingForResourceConfiguration,
       FunctionStateWaitingForScaleResourcesFromZero,
       FunctionStateWaitingForScaleResourcesToZero,
       FunctionStateReady,
       FunctionStateScaledToZero >>

\* the waiting states, with ready among them
waitingStatesWithReady ==
    << FunctionStateWaitingForResourceConfiguration,
       FunctionStateWaitingForScaleResourcesFromZero,
       FunctionStateWaitingForScaleResourcesToZero,
       FunctionStateReady >>

waitingStates ==
    << FunctionStateWaitingForResourceConfiguration,
       FunctionStateWaitingForScaleResourcesFromZero,
       FunctionStateWaitingForScaleResourcesToZero >>

\* the switch with the events of the two scale directions exchanged
scaleEventSwapped(state) ==
    CASE state = FunctionStateWaitingForScaleResourcesToZero -> ScaleFromZeroCompletedScaleEvent
      [] state = FunctionStateWaitingForScaleResourcesFromZero -> ScaleToZeroCompletedScaleEvent
      [] state = FunctionStateWaitingForResourceConfiguration -> ResourceUpdatedScaleEvent
      [] OTHER -> ""

\* the switch on function.Status.State
scaleEvent(state) ==
    CASE state = FunctionStateWaitingForScaleResourcesToZero -> ScaleToZeroCompletedScaleEvent
      [] state = FunctionStateWaitingForScaleResourcesFromZero -> ScaleFromZeroCompletedScaleEvent
      [] state = FunctionStateWaitingForResourceConfiguration -> ResourceUpdatedScaleEvent
      [] OTHER -> ""

finalState(state) ==
    CASE state = FunctionStateWaitingForScaleResourcesToZero -> FunctionStateScaledToZero
      [] state = FunctionStateWaitingForScaleResourcesFromZero -> FunctionStateReady
      [] state = FunctionStateWaitingForResourceConfiguration -> FunctionStateReady
      [] OTHER -> ""

\* the readiness timeout, in seconds
readinessTimeout(function) ==
    IF function.ReadinessTimeoutSeconds = 0
    THEN DefaultReadinessTimeoutSeconds
    ELSE function.ReadinessTimeoutSeconds

\* the error of WaitAvailable under the deadline; NilError when available
WaitAvailable(function, env) ==
    IF env.waitAvailable = Fails THEN ReadinessError
    ELSE IF env.readyAfter > readinessTimeout(function) THEN DeadlineExceeded
    ELSE NilError

\* a finalization that sets the new fields in the status the function has
FinalizeMerges(function, env) ==
    LET port == getFunctionHTTPPort(env) IN
    IF port.outcome = Panicked
    THEN Result(Panicked, NilError, function, <<Call(CallService, Panics)>>, <<>>, <<>>)
    ELSE IF port.err # NilError
    THEN Result(Returned, Wrap(port.err, <<"Failed to get function http port">>),
                function, <<Call(CallService, Fails)>>, <<>>, <<>>)
    ELSE LET event == scaleEvent(function.Status.State)
             functionStatus ==
                 setFunctionScaleToZeroStatus(
                     [ function.Status EXCEPT
                         !.State = finalState(function.Status.State),
                         !.HTTPPort = port.httpPort ],
                     event, env.now)
             set == setFunctionStatus(function, functionStatus, env)
         IN  [After(<<Call(CallService, Succeeds)>>, set) EXCEPT !.scaleEvents = <<event>>]

\* a finalization that sets the function unhealthy when the service cannot
\* be read
FinalizeSetsUnhealthy(function, env) ==
    LET port == getFunctionHTTPPort(env) IN
    IF port.outcome = Panicked
    THEN Result(Panicked, NilError, function, <<Call(CallService, Panics)>>, <<>>, <<>>)
    ELSE IF port.err # NilError
    THEN After(<<Call(CallService, Fails)>>,
               setFunctionError(function, FunctionStateUnhealthy,
                   Wrap(port.err, <<"Failed to get function http port">>), env))
    ELSE LET event == scaleEvent(function.Status.State)
             functionStatus ==
                 setFunctionScaleToZeroStatus(
                     Status(finalState(function.Status.State), <<>>,
                            port.httpPort, NoScaleToZero),
                     event, env.now)
             set == setFunctionStatus(function, functionStatus, env)
         IN  [After(<<Call(CallService, Succeeds)>>, set) EXCEPT !.scaleEvents = <<event>>]

\* lines 183 to 217: a waiting state, once the resources are available
Finalize(function, env) ==
    LET port == getFunctionHTTPPort(env) IN
    IF port.outcome = Panicked
    THEN Result(Panicked, NilError, function, <<Call(CallService, Panics)>>, <<>>, <<>>)
    ELSE IF port.err # NilError
    THEN Result(Returned, Wrap(port.err, <<"Failed to get function http port">>),
                function, <<Call(CallService, Fails)>>, <<>>, <<>>)
    ELSE LET event == scaleEvent(function.Status.State)
             functionStatus ==
                 setFunctionScaleToZeroStatus(
                     Status(finalState(function.Status.State), <<>>,
                            port.httpPort, NoScaleToZero),
                     event, env.now)
             set == setFunctionStatus(function, functionStatus, env)
         IN  [After(<<Call(CallService, Succeeds)>>, set) EXCEPT !.scaleEvents = <<event>>]

\* a readiness wait whose failure sets the state error
WaitSetsError(function, env) ==
    IF env.waitAvailable = Panics
    THEN Result(Panicked, NilError, function,
                <<Call(CallWaitAvailable, Panics)>>, <<>>, <<>>)
    ELSE IF WaitAvailable(function, env) # NilError
    THEN After(<<Call(CallWaitAvailable, Fails)>>,
               setFunctionError(function, FunctionStateError,
                   Wrap(WaitAvailable(function, env),
                        <<"Failed to wait for function resources to be available">>),
                   env))
    ELSE IF FunctionStateInSlice(function.Status.State, waitingStates)
    THEN After(<<Call(CallWaitAvailable, Succeeds)>>, Finalize(function, env))
    ELSE Result(Returned, NilError, function,
                <<Call(CallWaitAvailable, Succeeds)>>, <<>>, <<>>)

\* lines 161 to 219: the readiness wait and what follows it
Wait(function, env) ==
    IF env.waitAvailable = Panics
    THEN Result(Panicked, NilError, function,
                <<Call(CallWaitAvailable, Panics)>>, <<>>, <<>>)
    ELSE IF WaitAvailable(function, env) # NilError
    THEN After(<<Call(CallWaitAvailable, Fails)>>,
               setFunctionError(function, FunctionStateUnhealthy,
                   Wrap(WaitAvailable(function, env),
                        <<"Failed to wait for function resources to be available">>),
                   env))
    ELSE IF FunctionStateInSlice(function.Status.State, waitingStates)
    THEN After(<<Call(CallWaitAvailable, Succeeds)>>, Finalize(function, env))
    ELSE Result(Returned, NilError, function,
                <<Call(CallWaitAvailable, Succeeds)>>, <<>>, <<>>)

\* a provisioning path that goes on to the readiness wait after the
\* resources could not be created
ProvisionGoesOn(function, env) ==
    IF env.createOrUpdate = Panics
    THEN Result(Panicked, NilError, function,
                <<Call(CallCreateOrUpdate, Panics)>>, <<>>, <<>>)
    ELSE After(<<Call(CallCreateOrUpdate, env.createOrUpdate)>>, Wait(function, env))

\* lines 153 to 219: the provisioning path
Provision(function, env) ==
    IF env.createOrUpdate = Panics
    THEN Result(Panicked, NilError, function,
                <<Call(CallCreateOrUpdate, Panics)>>, <<>>, <<>>)
    ELSE IF env.createOrUpdate = Fails
    THEN After(<<Call(CallCreateOrUpdate, Fails)>>,
               setFunctionError(function, FunctionStateError,
                   Wrap(env.createOrUpdateError, <<"Failed to create/update function">>),
                   env))
    ELSE [ After(<<Call(CallCreateOrUpdate, Succeeds)>>, Wait(function, env))
             EXCEPT !.resources = ResourcesOf(env) ]

InvalidNamePrefix == "Function name doesn't conform to k8s naming convention. Errors: "

\* a body that validates the name only on the provisioning path
BodyValidatesLate(function, env) ==
    LET errorMessages == IsQualifiedName(function.Name) IN
    IF ~FunctionStateInSlice(function.Status.State, statesToRespond)
    THEN Result(Returned, NilError, function, <<>>, <<>>, <<>>)
    ELSE IF ShouldSkipDeploy(function.Annotations)
    THEN setFunctionStatus(function, StatusOfState(FunctionStateImported), env)
    ELSE IF Len(errorMessages) # 0
    THEN Result(Returned,
                New(<<InvalidNamePrefix>> \o Join(errorMessages, ", ")),
                function, <<>>, <<>>, <<>>)
    ELSE Provision(function, env)

\* a body that looks at the skip deploy annotation before the state
BodySkipDeployFirst(function, env) ==
    LET errorMessages == IsQualifiedName(function.Name) IN
    IF Len(errorMessages) # 0
    THEN Result(Returned,
                New(<<InvalidNamePrefix>> \o Join(errorMessages, ", ")),
                function, <<>>, <<>>, <<>>)
    ELSE IF ShouldSkipDeploy(function.Annotations)
    THEN setFunctionStatus(function, StatusOfState(FunctionStateImported), env)
    ELSE IF ~FunctionStateInSlice(function.Status.State, statesToRespond)
    THEN Result(Returned, NilError, function, <<>>, <<>>, <<>>)
    ELSE Provision(function, env)

\* lines 108 to 219: the handler's body, under the recovery boundary
Body(function, env) ==
    LET errorMessages == IsQualifiedName(function.Name) IN
    IF Len(errorMessages) # 0
    THEN Result(Returned,
                New(<<InvalidNamePrefix>> \o Join(errorMessages, ", ")),
                function, <<>>, <<>>, <<>>)
    ELSE IF ~FunctionStateInSlice(function.Status.State, statesToRespond)
    THEN Result(Returned, NilError, function, <<>>, <<>>, <<>>)
    ELSE IF ShouldSkipDeploy(function.Annotations)
    THEN setFunctionStatus(function, StatusOfState(FunctionStateImported), env)
    ELSE Provision(function, env)

\* a custom handler that sets the state unhealthy
CustomHandlerUnhealthy(function, panicError, env) ==
    setFunctionError(function, FunctionStateUnhealthy,
                     Wrap(panicError, <<"Failed to create/update function">>), env)

\* lines 101 to 105: the custom handler of the recovery
CustomHandler(function, panicError, env) ==
    setFunctionError(function, FunctionStateError,
                     Wrap(panicError, <<"Failed to create/update function">>), env)

\* common.CatchAndLogPanicWithOptions, deferred: a panic of the body is
\* recovered and handed to the custom handler, and the panic is returned
\* as an error
CatchAndLogPanicWithOptions(function, body, env) ==
    IF body.outcome # Panicked THEN body
    ELSE [ After(body.calls, CustomHandler(body.function, PanicError, env))
             EXCEPT !.err = PanicError, !.recovered = TRUE ]

\* a handler whose result is what the deferred call returns
CreateOrUpdateNamedResult(object, env) ==
    LET function == AsFunction(object)
        body == Body(function, env)
        deferred == CatchAndLogPanicWithOptions(function, body, env)
    IN  IF function.Kind # KindFunction
        THEN setFunctionError(function, FunctionStateError,
                              New(<<"Received unexpected object, expected function">>), env)
        ELSE IF body.outcome = Panicked
        THEN deferred
        ELSE body

\* the handler: what the deferred call returns is dropped, so after a
\* recovered panic the handler returns its zero result, nil
CreateOrUpdate(object, env) ==
    LET function == AsFunction(object)
        body == Body(function, env)
        deferred == CatchAndLogPanicWithOptions(function, body, env)
    IN  IF function.Kind # KindFunction
        THEN setFunctionError(function, FunctionStateError,
                              New(<<"Received unexpected object, expected function">>), env)
        ELSE IF body.outcome = Panicked
        THEN [deferred EXCEPT !.err = NilError]
        ELSE body

\* a delete handler that returns nil whatever ResourceClient.Delete returns
DeleteDropsError(namespace, name, outcome) ==
    Result(IF outcome = Panics THEN Panicked ELSE Returned, NilError, Absent,
           <<DeleteCall(namespace, name, outcome)>>, <<>>, <<>>)

\* lines 223 to 229: the delete handler; outcome is how
\* ResourceClient.Delete ends
Delete(namespace, name, outcome) ==
    Result(IF outcome = Panics THEN Panicked ELSE Returned,
           IF outcome = Fails THEN DeleteError ELSE NilError,
           Absent,
           <<DeleteCall(namespace, name, outcome)>>, <<>>, <<>>)

(***************************************************************************)
(* The operator: an informer cache over the object store, a deduplicating  *)
(* work queue of keys, and NumWorkers workers that pop a key, look up the  *)
(* cached object and call the handler.                                     *)
(***************************************************************************)
\* a key is (namespace, name)
Keys == {<<"default", "fn1">>}
Workers == 1..NumWorkers

\* the objects the store holds when the controller starts
PlainFunction == NuclioFunction(NameFn1, NoAnnotations, 0, InitialStatus)

InState(function, state) == [function EXCEPT !.Status.State = state]

\* a status left by an earlier failed deployment
FailedStatus ==
    [ StatusOfError(FunctionStateWaitingForResourceConfiguration,
                    <<<<"Failed to create/update function">>>>)
        EXCEPT !.Logs = BuildLogs ]

\* the objects the store may hold when the controller starts
Objects ==
    { InState(PlainFunction, state) : state \in FunctionStates }
    \cup
    { NuclioFunction(NameFn1, NoAnnotations, 0, FailedStatus),
      NuclioFunction(NameFn1, SkipDeployTrue, 0, InitialStatus),
      InState(NuclioFunction(NameFn1, SkipDeployTrue, 0, InitialStatus),
              FunctionStateReady),
      InState(NuclioFunction(NameFn1, SkipDeployTrue, 0, InitialStatus),
              FunctionStateImported),
      InState(NuclioFunction(NameDashed, SkipDeployFalse, 1, InitialStatus),
              FunctionStateWaitingForScaleResourcesFromZero),
      NuclioFunction(NameS4, NoAnnotations, 0, InitialStatus),
      InState(NuclioFunction(NameS4, NoAnnotations, 0, InitialStatus),
              FunctionStateBuilding),
      InState(NuclioFunction(NameTooLong, SkipDeployTrue, 0, InitialStatus),
              FunctionStateScaledToZero),
      OtherObject }

\* the changes of state that actors other than the controller make: the
\* scaler asks for a scale to or from zero, the platform for a deployment
ExternalTransitions ==
    { <<FunctionStateReady, FunctionStateWaitingForScaleResourcesToZero>>,
      <<FunctionStateScaledToZero, FunctionStateWaitingForScaleResourcesFromZero>>,
      <<FunctionStateReady, FunctionStateWaitingForResourceConfiguration>>,
      <<FunctionStateError, FunctionStateWaitingForResourceConfiguration>>,
      <<FunctionStateUnhealthy, FunctionStateWaitingForResourceConfiguration>> }

Idle == "idle"
Busy == "busy"
Crashed == "crashed"

VARIABLES
    store,       \* key -> the object in the object store
    cache,       \* key -> the object in the informer cache, handed to the handler
    synced,      \* key -> the cache holds the store's current version
    queue,       \* the work queue
    dirty,       \* keys that need processing
    processing,  \* keys being processed
    worker,      \* worker -> [state, key]
    last,        \* the last handler invocation
    ninv,        \* handler invocations so far
    nwrites,     \* statuses handed to ObjectStore.Update so far
    quiet,       \* so far every Update succeeded, no call panicked,
                 \* Resources.Service() did not fail, and only the
                 \* controller changed the function
    healthy      \* so far ResourceClient.CreateOrUpdate and WaitAvailable
                 \* succeeded whenever they were called for a function
                 \* that was ready or scaled to zero

vars == <<store, cache, synced, queue, dirty, processing, worker, last, ninv,
          nwrites, quiet, healthy>>

NoKey == <<>>

HandlerCreateOrUpdate == "CreateOrUpdate"
HandlerDelete == "Delete"

\* no invocation yet
NoInvocation ==
    [ Result(Returned, NilError, NilFunction, <<>>, <<>>, <<>>)
        EXCEPT !.outcome = "none" ]

Invocation(handler, seq, w, k, object, r) ==
    [ handler |-> handler, seq |-> seq, worker |-> w, key |-> k,
      object |-> object, result |-> r ]

None == Invocation("", 0, 0, NoKey, NilFunction, NoInvocation)

Init ==
    /\ store \in [Keys -> Objects]
    /\ cache = store
    /\ synced = [k \in Keys |-> TRUE]
    /\ queue = <<>>
    /\ dirty = {}
    /\ processing = {}
    /\ worker = [w \in Workers |-> [state |-> Idle, key |-> NoKey]]
    /\ last = None
    /\ ninv = 0
    /\ nwrites = 0
    /\ quiet = TRUE
    /\ healthy = TRUE

InQueue(k) == \E i \in 1..Len(queue) : queue[i] = k

\* an Add that queues a key that is being processed
AddWhileProcessing(k) ==
    IF k \in dirty
    THEN UNCHANGED <<queue, dirty>>
    ELSE /\ dirty' = dirty \cup {k}
         /\ queue' = Append(queue, k)

\* workqueue Add
Add(k) ==
    IF k \in dirty
    THEN UNCHANGED <<queue, dirty>>
    ELSE /\ dirty' = dirty \cup {k}
         /\ queue' = IF k \in processing THEN queue ELSE Append(queue, k)

\* an add or update event of the informer, or a resync tick, for key k
Enqueue(k) ==
    /\ k \notin dirty
    /\ Add(k)
    /\ UNCHANGED <<store, cache, synced, processing, worker, last, ninv, nwrites, quiet, healthy>>

\* the informer delivers the stored object: the cache entry is replaced
InformerEvent(k) ==
    /\ ~synced[k]
    /\ cache' = [cache EXCEPT ![k] = store[k]]
    /\ synced' = [synced EXCEPT ![k] = TRUE]
    /\ Add(k)
    /\ UNCHANGED <<store, processing, worker, last, ninv, nwrites, quiet, healthy>>

\* another actor (the platform, the scaler) sets the function's state
ExternalSetState(k, state) ==
    /\ store[k].Kind = KindFunction
    /\ <<store[k].Status.State, state>> \in ExternalTransitions
    /\ store' = [store EXCEPT ![k].Status.State = state]
    /\ synced' = [synced EXCEPT ![k] = FALSE]
    /\ quiet' = FALSE
    /\ UNCHANGED <<cache, queue, dirty, processing, worker, last, ninv, nwrites, healthy>>

\* the function is deleted from the store
ExternalDelete(k) ==
    /\ store[k].Kind # KindAbsent
    /\ store' = [store EXCEPT ![k] = Absent]
    /\ synced' = [synced EXCEPT ![k] = FALSE]
    /\ quiet' = FALSE
    /\ UNCHANGED <<cache, queue, dirty, processing, worker, last, ninv, nwrites, healthy>>

\* a worker pops the next key: workqueue Get
Get(w) ==
    /\ worker[w].state = Idle
    /\ ninv < MaxInvocations
    /\ Len(queue) > 0
    /\ worker' = [worker EXCEPT ![w] = [state |-> Busy, key |-> Head(queue)]]
    /\ queue' = Tail(queue)
    /\ processing' = processing \cup {Head(queue)}
    /\ dirty' = dirty \ {Head(queue)}
    /\ ninv' = ninv + 1
    /\ UNCHANGED <<store, cache, synced, last, nwrites, quiet, healthy>>

\* the environment of an invocation on key k: ObjectStore.Update accepts a
\* write of the current version only, and the clock shows the time
EnvironmentOf(k, env) ==
    [env EXCEPT !.update = IF synced[k] THEN env.update ELSE Fails,
                !.now = ninv]

Stored(r) == \E i \in 1..Len(r.updates) : r.updates[i].err = NilError

\* in the invocation that ended as r every Update succeeded, no call
\* panicked and Resources.Service() did not fail
Undisturbed(r) ==
    /\ r.outcome = Returned
    /\ \A i \in 1..Len(r.updates) : r.updates[i].err = NilError
    /\ \A i \in 1..Len(r.calls) :
          /\ r.calls[i].outcome # Panics
          /\ r.calls[i] # Call(CallService, Fails)

\* in the invocation on `object` that ended as r no call to the resource
\* client failed, when the object was ready or scaled to zero
Healthy(object, r) ==
    (object.Kind = KindFunction
       /\ object.Status.State \in {FunctionStateReady, FunctionStateScaledToZero})
      => \A i \in 1..Len(r.calls) :
            /\ r.calls[i] # Call(CallCreateOrUpdate, Fails)
            /\ r.calls[i] # Call(CallWaitAvailable, Fails)

\* the worker calls the handler on the cached object, then requeues the key
\* when the handler returned an error and marks the key done
Handle(w, env) ==
    /\ worker[w].state = Busy
    /\ cache[worker[w].key].Kind # KindAbsent
    /\ \E k \in {worker[w].key} :
       \E r \in {CreateOrUpdate(cache[k], EnvironmentOf(k, env))} :
          /\ last' = Invocation(HandlerCreateOrUpdate, ninv, w, k, cache[k], r)
          /\ IF r.outcome = Panicked
             THEN \* the panic leaves the handler: the process ends
                  /\ worker' = [v \in Workers |-> [worker[v] EXCEPT !.state = Crashed]]
                  /\ UNCHANGED <<store, cache, synced, queue, dirty, processing>>
             ELSE /\ worker' = [worker EXCEPT ![w] = [state |-> Idle, key |-> NoKey]]
                  /\ cache' = [cache EXCEPT ![k] = r.function]
                  /\ store' = IF Stored(r) THEN [store EXCEPT ![k] = r.function] ELSE store
                  /\ synced' = IF Stored(r) THEN [synced EXCEPT ![k] = FALSE] ELSE synced
                  /\ processing' = processing \ {k}
                  /\ dirty' = IF r.err # NilError THEN dirty \cup {k} ELSE dirty
                  /\ queue' = IF r.err # NilError \/ k \in dirty
                              THEN Append(queue, k) ELSE queue
          /\ nwrites' = nwrites + Len(r.updates)
          /\ quiet' = (quiet /\ Undisturbed(r))
          /\ healthy' = (healthy /\ Healthy(cache[k], r))
    /\ UNCHANGED ninv

\* the key is not in the cache: the worker calls the delete handler with
\* the namespace and name of the key
HandleDelete(w, outcome) ==
    /\ worker[w].state = Busy
    /\ cache[worker[w].key].Kind = KindAbsent
    /\ \E k \in {worker[w].key} :
       \E r \in {Delete(k[1], k[2], outcome)} :
          /\ last' = Invocation(HandlerDelete, ninv, w, k, cache[k], r)
          /\ IF r.outcome = Panicked
             THEN /\ worker' = [v \in Workers |-> [worker[v] EXCEPT !.state = Crashed]]
                  /\ UNCHANGED <<queue, dirty, processing>>
             ELSE /\ worker' = [worker EXCEPT ![w] = [state |-> Idle, key |-> NoKey]]
                  /\ processing' = processing \ {k}
                  /\ dirty' = IF r.err # NilError THEN dirty \cup {k} ELSE dirty
                  /\ queue' = IF r.err # NilError \/ k \in dirty
                              THEN Append(queue, k) ELSE queue
    /\ UNCHANGED <<store, cache, synced, ninv, nwrites, quiet, healthy>>

Next ==
    \/ \E k \in Keys : Enqueue(k)
    \/ \E k \in Keys : InformerEvent(k)
    \/ \E k \in Keys, state \in FunctionStates : ExternalSetState(k, state)
    \/ \E k \in Keys : ExternalDelete(k)
    \/ \E w \in Workers : Get(w)
    \/ \E w \in Workers, env \in Environments : Handle(w, env)
    \/ \E w \in Workers, outcome \in {Succeeds, Fails, Panics} : HandleDelete(w, outcome)

Spec == Init /\ [][Next]_vars

(***************************************************************************)
(* Properties of the handler, stated on the last invocation.               *)
(***************************************************************************)
\* the last invocation was of CreateOrUpdate
Invoked == last.seq > 0 /\ last.handler = HandlerCreateOrUpdate

\* the last invocation made the call `name`, and it ended `outcome`
CallEnded(name, outcome) ==
    \E i \in 1..Len(last.result.calls) :
        last.result.calls[i] = Call(name, outcome)

Called(name) == \E outcome \in {Succeeds, Fails, Panics} : CallEnded(name, outcome)

WaitingStateSet ==
    { FunctionStateWaitingForResourceConfiguration,
      FunctionStateWaitingForScaleResourcesFromZero,
      FunctionStateWaitingForScaleResourcesToZero }

\* the mapping of the provisioning path, as the specification tabulates it
ExpectedTransition ==
    [ s \in WaitingStateSet |->
        CASE s = FunctionStateWaitingForScaleResourcesToZero ->
                 <<"scaleToZeroCompleted", "scaledToZero">>
          [] s = FunctionStateWaitingForScaleResourcesFromZero ->
                 <<"scaleFromZeroCompleted", "ready">>
          [] s = FunctionStateWaitingForResourceConfiguration ->
                 <<"resourceUpdated", "ready">> ]

\* the last invocation was on a function in a waiting state, without skip
\* deploy, and the resources were created and became available
WaitingAndAvailable ==
    /\ Invoked
    /\ last.object.Kind = KindFunction
    /\ last.object.Status.State \in WaitingStateSet
    /\ ~ShouldSkipDeploy(last.object.Annotations)
    /\ CallEnded(CallCreateOrUpdate, Succeeds)
    /\ CallEnded(CallWaitAvailable, Succeeds)

\* exactly one scale event is stamped, in the one status that is written,
\* and event and state follow the mapping
OneScaleEventStamped ==
    /\ Len(last.result.scaleEvents) = 1
    /\ Len(last.result.updates) = 1
    /\ Len(last.result.updates[1].status.ScaleToZero) = 1
    /\ last.result.updates[1].status.ScaleToZero[1].LastScaleEvent
         = ExpectedTransition[last.object.Status.State][1]
    /\ last.result.scaleEvents[1] = ExpectedTransition[last.object.Status.State][1]
    /\ last.result.updates[1].status.State
         = ExpectedTransition[last.object.Status.State][2]

\* C1, as claimed: every invocation on a function in a waiting state, without
\* skip deploy, in which ResourceClient.CreateOrUpdate and WaitAvailable
\* succeed stamps exactly one scale event in the status it writes, following
\* the mapping.
C1_Original == WaitingAndAvailable => OneScaleEventStamped

\* C1, amended: the same, for the invocations in which Resources.Service()
\* succeeds too.
C1_OneScaleEvent ==
    (WaitingAndAvailable /\ CallEnded(CallService, Succeeds)) => OneScaleEventStamped

C1_Witness ==
    /\ WaitingAndAvailable
    /\ CallEnded(CallService, Succeeds)
    /\ last.object.Status.State = FunctionStateWaitingForScaleResourcesToZero
    /\ last.result.function.Status.State = FunctionStateScaledToZero

\* the wait of the last invocation failed and the function was set unhealthy
WaitFailedUnhealthy ==
    /\ Invoked
    /\ CallEnded(CallWaitAvailable, Fails)
    /\ last.result.function.Status.State = FunctionStateUnhealthy

\* this step is the next invocation, on the same function, with the object
\* as the last invocation left it
NextInvocationOnSameObject ==
    /\ last'.seq # last.seq
    /\ last'.key = last.key
    /\ last'.object = last.result.function

\* C2, as claimed: after an invocation whose WaitAvailable failed and that
\* set the function unhealthy, the next invocation on the same function
\* calls ResourceClient.CreateOrUpdate and WaitAvailable again.
C2_Original ==
    [][ (WaitFailedUnhealthy /\ NextInvocationOnSameObject)
          => \E i, j \in 1..Len(last'.result.calls) :
                /\ last'.result.calls[i].name = CallCreateOrUpdate
                /\ last'.result.calls[j].name = CallWaitAvailable ]_vars

\* C2, amended: that next invocation does nothing: no call, no status
\* write, and it returns nil.
C2_NotRetried ==
    [][ (WaitFailedUnhealthy /\ NextInvocationOnSameObject)
          => /\ last'.result.calls = <<>>
             /\ last'.result.updates = <<>>
             /\ last'.result.outcome = Returned
             /\ last'.result.err = NilError
             /\ last'.result.function = last'.object ]_vars

\* the second invocation of a run without external changes found the
\* function unhealthy with the message of a failed wait, and did nothing
C2_Witness ==
    /\ last.seq = 2
    /\ store[last.key] = last.object
    /\ last.object.Kind = KindFunction
    /\ last.object.Status.State = FunctionStateUnhealthy
    /\ Len(last.object.Status.Message) > 0
    /\ last.result.calls = <<>>

\* C3, as claimed: given an object that is not a function, the handler
\* returns the unexpected object error, writes no status and ends normally.
C3_UnexpectedObject ==
    (Invoked /\ last.object.Kind # KindFunction)
        => /\ last.result.outcome = Returned
           /\ last.result.err = New(<<"Received unexpected object, expected function">>)
           /\ last.result.updates = <<>>

\* a call of the last invocation panicked
PanicRaised ==
    /\ Invoked
    /\ last.object.Kind = KindFunction
    /\ \E i \in 1..Len(last.result.calls) : last.result.calls[i].outcome = Panics

C5_Original ==
    (Invoked /\ CallEnded(CallCreateOrUpdate, Panics))
        => (last.result.outcome = Returned /\ last.result.err # NilError)

\* C5, amended: when ResourceClient.CreateOrUpdate panics, the handler
\* returns nil, and the error status is written.
C5_ReturnsNil ==
    (Invoked /\ CallEnded(CallCreateOrUpdate, Panics))
        => /\ last.result.outcome = Returned
           /\ last.result.err = NilError
           /\ Len(last.result.updates) = 1
           /\ last.result.updates[1].status.State = "error"

\* the panic was swallowed: the key is not queued again
C5_Witness ==
    /\ Invoked
    /\ CallEnded(CallCreateOrUpdate, Panics)
    /\ last.result.err = NilError
    /\ CallEnded(CallUpdate, Fails)
    /\ ~InQueue(last.key)
    /\ last.key \notin dirty

\* C6: an invocation on a function that is ready or scaled to zero, in which
\* ResourceClient.CreateOrUpdate and WaitAvailable succeed, hands no status
\* to the object store and leaves the function as it was.
C6_NoStatusChange ==
    ( /\ Invoked
      /\ last.object.Kind = KindFunction
      /\ last.object.Status.State \in {"ready", "scaledToZero"}
      /\ CallEnded(CallCreateOrUpdate, Succeeds)
      /\ CallEnded(CallWaitAvailable, Succeeds) )
        => /\ last.result.updates = <<>>
           /\ ~Called(CallUpdate)
           /\ last.result.function = last.object
           /\ last.result.scaleEvents = <<>>
           /\ last.result.err = NilError

\* a ready function is reconciled a second time
C6_Witness ==
    /\ last.seq = 2
    /\ last.object.Kind = KindFunction
    /\ last.object.Status.State = "ready"
    /\ CallEnded(CallWaitAvailable, Succeeds)
    /\ store[last.key] = last.object

\* the last invocation was on a function in a waiting state, returned nil,
\* and the function has left its waiting state
LeftWaitingState ==
    /\ Invoked
    /\ last.object.Kind = KindFunction
    /\ last.object.Status.State \in WaitingStateSet
    /\ last.result.outcome = Returned
    /\ last.result.err = NilError
    /\ last.result.function.Status.State \notin WaitingStateSet

\* a status was written, and the last one written carries the scale event of
\* the waiting state
ScaleEventWritten ==
    /\ Len(last.result.updates) > 0
    /\ LET written == last.result.updates[Len(last.result.updates)].status IN
       /\ Len(written.ScaleToZero) = 1
       /\ written.ScaleToZero[1].LastScaleEvent
            = ExpectedTransition[last.object.Status.State][1]
       /\ written = last.result.function.Status

\* C7, as claimed: whenever an invocation on a function in a waiting state
\* returns nil and the function has left its waiting state, the status
\* written carries the scale event of that waiting state.
C7_Original == LeftWaitingState => ScaleEventWritten

\* C7, amended: the same, for a function without skip deploy and an
\* invocation in which no panic was recovered.
C7_ScaleEventBeforeSuccess ==
    ( /\ LeftWaitingState
      /\ ~ShouldSkipDeploy(last.object.Annotations)
      /\ \A i \in 1..Len(last.result.calls) : last.result.calls[i].outcome # Panics )
        => ScaleEventWritten

C7_Witness ==
    /\ LeftWaitingState
    /\ ~ShouldSkipDeploy(last.object.Annotations)
    /\ last.object.Status.State = FunctionStateWaitingForScaleResourcesFromZero
    /\ ScaleEventWritten
    /\ store[last.key].Status = last.result.function.Status

\* C8: when WaitAvailable fails, the handler writes a status with state
\* unhealthy and a message, stamps no scale event, and returns the error of
\* WaitAvailable, wrapped.
C8_WaitFailure ==
    (Invoked /\ CallEnded(CallWaitAvailable, Fails))
        => /\ last.result.outcome = Returned
           /\ Len(last.result.updates) = 1
           /\ last.result.updates[1].status.State = "unhealthy"
           /\ Len(last.result.updates[1].status.Message) > 0
           /\ last.result.updates[1].status.ScaleToZero = <<>>
           /\ last.result.scaleEvents = <<>>
           /\ Len(last.result.err) = 2
           /\ last.result.err[1] = <<"Failed to wait for function resources to be available">>
           /\ Tail(last.result.err) \in {ReadinessError, DeadlineExceeded}

\* the resources took longer than the one second the function allows, and
\* the object store refused the status
C8_Witness ==
    /\ Invoked
    /\ CallEnded(CallWaitAvailable, Fails)
    /\ last.object.ReadinessTimeoutSeconds = 1
    /\ Tail(last.result.err) = DeadlineExceeded
    /\ CallEnded(CallUpdate, Fails)

\* C9: when ResourceClient.CreateOrUpdate returns an error, the handler
\* writes a status with state error, does not call WaitAvailable, and
\* returns the provisioning error, wrapped.
C9_ProvisionFailure ==
    (Invoked /\ CallEnded(CallCreateOrUpdate, Fails))
        => /\ last.result.outcome = Returned
           /\ Len(last.result.updates) = 1
           /\ last.result.updates[1].status.State = "error"
           /\ ~Called(CallWaitAvailable)
           /\ ~Called(CallService)
           /\ Len(last.result.err) > 1
           /\ last.result.err[1] = <<"Failed to create/update function">>
           /\ Tail(last.result.err) \in {ProvisionError, DeepProvisionError}

C9_Witness ==
    /\ Invoked
    /\ CallEnded(CallCreateOrUpdate, Fails)
    /\ Tail(last.result.err) = ProvisionError
    /\ store[last.key].Status.State = "error"

\* the names that fail the validation
InvalidNames == {NameS4, NameTooLong, NameLeadingDash}

\* C10: for a function whose name fails the validation, whatever its state
\* and annotations, the handler returns the invalid name error, leaves the
\* status alone and makes no call.
C10_InvalidName ==
    ( /\ Invoked
      /\ last.object.Kind = KindFunction
      /\ last.object.Name \in InvalidNames )
        => /\ last.result.outcome = Returned
           /\ Len(last.result.err) = 1
           /\ last.result.err[1][1] = InvalidNamePrefix
           /\ Len(last.result.err[1]) > 1
           /\ last.result.calls = <<>>
           /\ last.result.updates = <<>>
           /\ last.result.function = last.object

\* a function with a name too long, skip deploy set, in a state the handler
\* responds to
C10_Witness ==
    /\ Invoked
    /\ last.object.Kind = KindFunction
    /\ last.object.Name = NameTooLong
    /\ ShouldSkipDeploy(last.object.Annotations)
    /\ last.object.Status.State = "scaledToZero"
    /\ last.result.err # NilError

\* the last invocation was on a function with a truthy skip deploy
\* annotation, in a state the handler responds to
SkipDeployInvoked ==
    /\ Invoked
    /\ last.object.Kind = KindFunction
    /\ ShouldSkipDeploy(last.object.Annotations)
    /\ last.object.Status.State \in
          { "waitingForResourceConfiguration", "waitingForScaleResourcesFromZero",
            "waitingForScaleResourcesToZero", "ready", "scaledToZero" }

\* no call to the resource client; one status written, {state: imported} and
\* nothing else; the handler returns what the write returned
ImportedWritten ==
    /\ ~Called(CallCreateOrUpdate)
    /\ ~Called(CallWaitAvailable)
    /\ ~Called(CallService)
    /\ last.result.outcome = Returned
    /\ Len(last.result.updates) = 1
    /\ last.result.updates[1].status =
          [ State |-> "imported", Message |-> <<>>, Logs |-> <<>>,
            HTTPPort |-> 0, ScaleToZero |-> <<>> ]
    /\ last.result.err = last.result.updates[1].err
    /\ (CallEnded(CallUpdate, Succeeds) => last.result.err = NilError)
    /\ (CallEnded(CallUpdate, Fails) => last.result.err = UpdateError)

\* C11, as claimed: for a function with a truthy skip deploy annotation in a
\* state the handler responds to, the handler calls neither
\* ResourceClient.CreateOrUpdate nor WaitAvailable, writes the status
\* {state: imported} with every other field empty, and returns nil, or the
\* error of the write when the write fails.
C11_Original == SkipDeployInvoked => ImportedWritten

\* C11, amended: the same, for a function whose name passes the validation.
C11_SkipDeploy ==
    (SkipDeployInvoked /\ last.object.Name \notin InvalidNames) => ImportedWritten

\* a ready function with skip deploy, and the object store refuses the write
C11_Witness ==
    /\ SkipDeployInvoked
    /\ last.object.Name = NameFn1
    /\ last.object.Status.State = "ready"
    /\ last.result.err = UpdateError
    /\ last.result.function.Status.State = "imported"

\* C12: for a function with a valid name in a state other than the five the
\* handler responds to, whatever its annotations, the handler returns nil,
\* makes no call and writes no status.
C12_NoOp ==
    ( /\ Invoked
      /\ last.object.Kind = KindFunction
      /\ last.object.Name \notin InvalidNames
      /\ last.object.Status.State \notin
            { "waitingForResourceConfiguration", "waitingForScaleResourcesFromZero",
              "waitingForScaleResourcesToZero", "ready", "scaledToZero" } )
        => /\ last.result.outcome = Returned
           /\ last.result.err = NilError
           /\ last.result.calls = <<>>
           /\ last.result.updates = <<>>
           /\ last.result.function = last.object

\* an imported function that carries the skip deploy annotation
C12_Witness ==
    /\ Invoked
    /\ last.object.Kind = KindFunction
    /\ last.object.Status.State = "imported"
    /\ ShouldSkipDeploy(last.object.Annotations)
    /\ last.result.calls = <<>>
    /\ last.result.err = NilError

\* the child service of the last invocation's resources exposes a port named
\* http
ExposesHTTPPort ==
    /\ Len(last.result.resources) = 1
    /\ last.result.resources[1].service = Succeeds
    /\ last.result.resources[1].serviceValue # NoService
    /\ \E i \in 1..Len(last.result.resources[1].serviceValue[2]) :
          last.result.resources[1].serviceValue[2][i].Name = "http"

\* the node port of the first port named http of that service, 0 without one
HTTPNodePort ==
    IF ~ExposesHTTPPort THEN 0
    ELSE LET ports == last.result.resources[1].serviceValue[2]
             first == CHOOSE i \in 1..Len(ports) :
                         /\ ports[i].Name = "http"
                         /\ \A j \in 1..(i - 1) : ports[j].Name # "http"
         IN  ports[first].NodePort

\* C13, as claimed: for every invocation in which
\* ResourceClient.CreateOrUpdate succeeded and the handler returned nil, the
\* function's resulting status.httpPort is greater than 0 exactly when the
\* child service exposes a port named http.
C13_Original ==
    ( /\ Invoked
      /\ CallEnded(CallCreateOrUpdate, Succeeds)
      /\ last.result.outcome = Returned
      /\ last.result.err = NilError )
        => (last.result.function.Status.HTTPPort > 0 <=> ExposesHTTPPort)

\* C13, amended: for every invocation on a function in a waiting state in
\* which ResourceClient.CreateOrUpdate, WaitAvailable and Resources.Service()
\* succeeded and the handler returned nil, the written status.httpPort is the
\* node port of the service's first port named http, and 0 without such a
\* port: it is greater than 0 exactly when the service exposes a port named
\* http whose node port is not 0.
C13_HTTPPort ==
    ( /\ WaitingAndAvailable
      /\ CallEnded(CallService, Succeeds)
      /\ last.result.outcome = Returned
      /\ last.result.err = NilError )
        => /\ Len(last.result.updates) = 1
           /\ last.result.updates[1].status.HTTPPort = HTTPNodePort
           /\ last.result.function.Status.HTTPPort = HTTPNodePort
           /\ (last.result.function.Status.HTTPPort > 0
                  <=> (ExposesHTTPPort /\ HTTPNodePort # 0))

\* the service has a port named http after another port, and the store
\* holds its node port
C13_Witness ==
    /\ WaitingAndAvailable
    /\ last.result.err = NilError
    /\ ExposesHTTPPort
    /\ last.result.resources[1].serviceValue[2][1].Name = "metrics"
    /\ store[last.key].Status.HTTPPort = 30080

\* the errors the handler hands to setFunctionError
HandedErrors ==
    { Wrap(ProvisionError, <<"Failed to create/update function">>),
      Wrap(DeepProvisionError, <<"Failed to create/update function">>),
      Wrap(ReadinessError, <<"Failed to wait for function resources to be available">>),
      Wrap(DeadlineExceeded, <<"Failed to wait for function resources to be available">>),
      Wrap(PanicError, <<"Failed to create/update function">>) }

\* the last invocation called setFunctionError on its function and returned
\* what it returned, and the status write failed
SetErrorWriteFailed ==
    /\ Invoked
    /\ last.object.Kind = KindFunction
    /\ CallEnded(CallCreateOrUpdate, Fails) \/ CallEnded(CallWaitAvailable, Fails)
    /\ CallEnded(CallUpdate, Fails)

\* C14: setFunctionError on a function that is not nil returns the error it
\* was given, whether the status write succeeds or fails: after a failed
\* write the handler returns the error of the failed call, wrapped, and not
\* the error of the write.
C14_OriginalError ==
    /\ SetErrorWriteFailed
          => /\ last.result.err \in HandedErrors
             /\ last.result.err # UpdateError
             /\ last.result.updates[1].err = UpdateError
    /\ (Invoked /\ last.object.Kind = KindFunction)
          => \A functionErrorState \in {FunctionStateError, FunctionStateUnhealthy},
                err \in HandedErrors, update \in {Succeeds, Fails} :
                LET set == setFunctionError(last.object, functionErrorState, err,
                                            [update |-> update])
                IN  /\ set.err = err
                    /\ set.updates[1].err =
                          (IF update = Fails THEN UpdateError ELSE NilError)

\* the readiness wait failed and the object store refused the status
C14_Witness ==
    /\ SetErrorWriteFailed
    /\ CallEnded(CallWaitAvailable, Fails)
    /\ last.result.err =
          Wrap(ReadinessError, <<"Failed to wait for function resources to be available">>)
    /\ store[last.key].Status.State # "unhealthy"

(***************************************************************************)
(* Properties of the operator and of the delete handler.                   *)
(***************************************************************************)
\* the workers that are executing a handler for key k
Executing(k) == {w \in Workers : worker[w].state = Busy /\ worker[w].key = k}

\* how many times key k is in the work queue
Queued(k) == Cardinality({i \in 1..Len(queue) : queue[i] = k})

\* C15: at every instant at most one handler invocation is executing for a
\* key, and the events that arrive for a key while it is processed are
\* coalesced into one later round: they leave the queue as it is, and when
\* the handler returns the key is queued exactly once.
C15_AtMostOne ==
    [][ \A k \in Keys :
          /\ Cardinality(Executing(k)') <= 1
          /\ Queued(k)' <= 1
          /\ (k \in processing' /\ Executing(k)' # {}) => Queued(k)' = 0
          /\ (k \in processing /\ k \in processing') => queue' = queue
          /\ (k \in processing /\ k \in dirty /\ k \notin processing')
                => (Queued(k)' = 1 /\ k \in dirty') ]_vars

\* an event arrived for a key while it was being processed: the key waits
\* outside the queue, and the other worker is idle
C15_Witness ==
    \E k \in Keys :
        /\ Cardinality(Executing(k)) = 1
        /\ k \in dirty
        /\ Queued(k) = 0
        /\ cache[k] = store[k]
        /\ synced[k]
        /\ ninv = 1
        /\ cache[k].Kind = KindFunction
        /\ cache[k].Status.State = "waitingForScaleResourcesToZero"
        /\ \E w \in Workers : worker[w].state = Idle

\* C16: an invocation of the delete handler makes one call, of
\* ResourceClient.Delete with the namespace and the name of the key, hands
\* no status to the object store, leaves the store as it is, and returns
\* what that call returned: nil when it succeeded, its error, not wrapped,
\* when it failed.  Deleting again a function that is gone succeeds when
\* the call succeeds.
C16_Delete ==
    [][ (last'.seq # last.seq /\ last'.handler = "Delete")
          => /\ Len(last'.result.calls) = 1
             /\ last'.result.calls[1].name = "ResourceClient.Delete"
             /\ last'.result.calls[1].args = last'.key
             /\ last'.result.updates = <<>>
             /\ store' = store
             /\ cache' = cache
             /\ (last'.result.calls[1].outcome = Succeeds
                   => (last'.result.outcome = Returned /\ last'.result.err = NilError))
             /\ (last'.result.calls[1].outcome = Fails
                   => (last'.result.outcome = Returned /\ last'.result.err = DeleteError))
             /\ (last'.result.outcome = Returned /\ last'.result.err # NilError)
                   => Queued(last.key)' = 1 ]_vars

\* the second of two delete invocations for the same key: the function was
\* already gone, and the handler returns nil
C16_Witness ==
    /\ last.handler = "Delete"
    /\ last.seq = 2
    /\ store[last.key].Kind = KindAbsent
    /\ last.result.calls[1].outcome = Succeeds
    /\ last.result.err = NilError
    /\ last.key \notin dirty

\* C17, as claimed: an invocation of CreateOrUpdate leaves the object it was
\* handed, the cached object, as it was in memory: the function changes
\* only in the object store.
C17_CacheReadOnly ==
    [][ (last'.seq # last.seq /\ last'.handler = "CreateOrUpdate"
           /\ last'.result.outcome = Returned)
          => /\ last'.result.function = last'.object
             /\ cache' = cache ]_vars

\* the last invocation finalized a waiting state: the resources were
\* created and available, the service was read, and the status was handed
\* to the object store
Finalized ==
    /\ WaitingAndAvailable
    /\ CallEnded(CallService, Succeeds)
    /\ Len(last.result.updates) = 1

\* C18: the status written by a finalization out of a waiting state holds
\* the final state, the http port and the scale event with its time, and
\* nothing else: the message and the logs of the status it replaces are not
\* in it.
C18_FreshStatus ==
    Finalized
        => /\ last.result.updates[1].status =
                 [ State |-> ExpectedTransition[last.object.Status.State][2],
                   Message |-> <<>>,
                   Logs |-> <<>>,
                   HTTPPort |-> HTTPNodePort,
                   ScaleToZero |->
                     << [ LastScaleEvent |->
                            ExpectedTransition[last.object.Status.State][1],
                          LastScaleEventTime |-> last.seq ] >> ]
           /\ last.result.function.Status = last.result.updates[1].status

\* the replaced status had the message of a failed deployment and the build
\* logs, and the store holds the new one
C18_Witness ==
    /\ Finalized
    /\ Len(last.object.Status.Message) > 0
    /\ Len(last.object.Status.Logs) > 0
    /\ store[last.key].Status.State = "ready"
    /\ store[last.key].Status.Message = <<>>
    /\ store[last.key].Status.Logs = <<>>

\* Resources.Service() returned an error in the last invocation
ServiceFailed ==
    /\ Invoked
    /\ CallEnded(CallService, Fails)

\* C19: when Resources.Service() returns an error in the finalization of a
\* waiting state, the handler returns that error, wrapped, hands no status
\* to the object store and stamps no scale event, the function stays in its
\* waiting state, and the next invocation on it calls
\* ResourceClient.CreateOrUpdate again.
C19_ServiceError ==
    [][ /\ ServiceFailed'
          => /\ last'.object.Status.State \in WaitingStateSet
             /\ CallEnded(CallCreateOrUpdate, Succeeds)'
             /\ CallEnded(CallWaitAvailable, Succeeds)'
             /\ last'.result.outcome = Returned
             /\ last'.result.err =
                   Wrap(Wrap(ServiceError, <<"Failed to get function service">>),
                        <<"Failed to get function http port">>)
             /\ last'.result.updates = <<>>
             /\ ~Called(CallUpdate)'
             /\ last'.result.scaleEvents = <<>>
             /\ last'.result.function = last'.object
             /\ (last'.seq # last.seq => (store' = store /\ cache' = cache))
        /\ (ServiceFailed /\ NextInvocationOnSameObject /\ Invoked')
          => /\ Len(last'.result.calls) > 0
             /\ last'.result.calls[1].name = CallCreateOrUpdate ]_vars

\* the service of a function that scales from zero could not be read: the
\* store and the cache hold the function as it was, and its key is queued
\* again
C19_Witness ==
    /\ ServiceFailed
    /\ last.object.Status.State = "waitingForScaleResourcesFromZero"
    /\ store[last.key] = last.object
    /\ cache[last.key] = last.object
    /\ InQueue(last.key)
    /\ ninv = 1

\* the states the handler writes
WrittenStates == {"ready", "scaledToZero", "imported", "error", "unhealthy"}

\* the environments in which every Update succeeds, no call panics and
\* Resources.Service() does not fail
QuietEnvironments ==
    { env \in Environments :
        /\ env.update = Succeeds
        /\ env.createOrUpdate # Panics
        /\ env.waitAvailable # Panics
        /\ env.service = Succeeds }

\* a later invocation on the stored function of key k, in environment env,
\* writes nothing and returns nil
WritesNothing(k, env) ==
    LET later == CreateOrUpdate(store[k], env)
    IN  /\ later.updates = <<>>
        /\ later.err = NilError
        /\ later.function = store[k]

\* the function of key k has a valid name
ValidlyNamed(k) ==
    /\ store[k].Kind = KindFunction
    /\ store[k].Name \notin InvalidNames

\* the one status written so far left the function of key k in a state the
\* handler writes: ready or scaled to zero without skip deploy, imported,
\* error or unhealthy
WroteOnce(k) ==
    /\ nwrites = 1
    /\ store[k].Status.State \in WrittenStates
    /\ store[k].Status.State \in {"ready", "scaledToZero"}
          => ~ShouldSkipDeploy(store[k].Annotations)

\* C20, as claimed: as long as every ObjectStore.Update succeeds, no call
\* panics, Resources.Service() does not fail and only the controller changes
\* the function, the invocations of CreateOrUpdate on a function with a
\* valid name hand at most one status to the object store in total: the
\* state written (ready or scaled to zero for a function without skip
\* deploy, imported, error or unhealthy) is one in which every later
\* invocation writes nothing.
C20_Original ==
    \A k \in Keys :
        (quiet /\ ValidlyNamed(k))
            => /\ nwrites <= 1
               /\ nwrites = 1
                     => /\ WroteOnce(k)
                        /\ \A env \in QuietEnvironments : WritesNothing(k, env)

\* C20, amended: the same, as long as ResourceClient.CreateOrUpdate and
\* WaitAvailable also succeed whenever they are called for a function that
\* is ready or scaled to zero.
C20_AtMostOneWrite ==
    \A k \in Keys :
        (quiet /\ healthy /\ ValidlyNamed(k))
            => /\ nwrites <= 1
               /\ nwrites = 1
                     => /\ WroteOnce(k)
                        /\ \A env \in QuietEnvironments :
                              ( store[k].Status.State \in {"ready", "scaledToZero"}
                                  => /\ env.createOrUpdate = Succeeds
                                     /\ WaitAvailable(store[k], env) = NilError )
                                => WritesNothing(k, env)

\* the first invocation set the function unhealthy and returned the error
\* of the readiness wait; the second, on the requeued key, wrote nothing
C20_Witness ==
    /\ quiet
    /\ healthy
    /\ nwrites = 1
    /\ last.seq = 2
    /\ Invoked
    /\ last.object.Status.State = "unhealthy"
    /\ last.result.updates = <<>>
    /\ store[last.key] = last.object

====
